---- MODULE Spec2Model ----
(***************************************************************************)
(* Model of src/actors.py: five independent reporting functions over a     *)
(* movie table and an actor-role table.  Every function is a single call:  *)
(* the tables and arguments are fixed by the initial state, one action     *)
(* runs the whole pipeline and leaves the returned table in `result`.      *)
(*                                                                         *)
(* Representation of cells                                                 *)
(*   - a string is the sequence of its code points, compared               *)
(*     lexicographically as Python compares str;                           *)
(*   - an empty CSV field is read by pandas.read_csv as NaN, so the empty  *)
(*     sequence << >> is NaN in a string column and in a nullable numeric  *)
(*     column, whose non-null cells are one-element sequences <<v>>;       *)
(*   - weights and scores are exact binary fractions counted in units of   *)
(*     1/32, so that float arithmetic on them is exact.                    *)
(***************************************************************************)
EXTENDS Integers, Sequences, FiniteSets

VARIABLES movies, actors, n, weights, pc, top_n, merged_df, collaboration_counts, result

vars == <<movies, actors, n, weights, pc, top_n, merged_df, collaboration_counts, result>>

NaN == << >>

(***************************************************************************)
(* Bounds of the model.                                                    *)
(***************************************************************************)
MaxTitleRows == 4
MaxYearRows == 3
MaxPerYear == 2
MaxTopMovies == 2
MaxTopActors == 2
MaxTopN == 2
MaxCollabRows == 3
MaxCollabN == 2
MaxMedianMovies == 3
MaxMedianActors == 2
MaxMedianN == 2

(***************************************************************************)
(* Generic table helpers.                                                  *)
(***************************************************************************)
SeqsUpTo(S, k) == UNION {[1..m -> S] : m \in 0..k}

Min(a, b) == IF a <= b THEN a ELSE b

Perms(k) == {p \in [1..k -> 1..k] : \A i, j \in 1..k : i # j => p[i] # p[j]}

\* str.__lt__: lexicographic order on code points.
RECURSIVE StrLess(_, _)
StrLess(a, b) ==
    IF b = << >> THEN FALSE
    ELSE IF a = << >> THEN TRUE
    ELSE IF a[1] # b[1] THEN a[1] < b[1]
    ELSE StrLess(Tail(a), Tail(b))

\* DataFrame.head(k) for k >= 0.
HeadRows(s, k) == SubSeq(s, 1, Min(k, Len(s)))

\* Rows of s that satisfy Keep, in their order (boolean-mask indexing).
RECURSIVE Mask(_, _)
Mask(s, keep) ==
    IF s = << >> THEN << >>
    ELSE IF keep[1] THEN <<s[1]>> \o Mask(Tail(s), Tail(keep))
    ELSE Mask(Tail(s), Tail(keep))

\* The pairs of row positions of a table.  A sort order is the set of the
\* pairs <<i, j>> such that row i has to come strictly before row j.
Pairs(s) == (1..Len(s)) \X (1..Len(s))

\* A stable sort (kind='mergesort', and the lexsort of a multi-column sort):
\* rows that compare equal keep their relative order.
StableSort(s, before) ==
    LET k == Len(s)
        pos == [i \in 1..k |->
                  1 + Cardinality({j \in 1..k :
                        <<j, i>> \in before \/ (<<i, j>> \notin before /\ j < i)})]
    IN  [q \in 1..k |-> s[CHOOSE i \in 1..k : pos[i] = q]]

\* The default single-column sort (kind='quicksort') is not stable: every
\* arrangement that is ordered by the key is a possible outcome.
UnstableSorts(s, before) ==
    {[q \in 1..Len(s) |-> s[p[q]]] :
        p \in {p \in Perms(Len(s)) : \A q \in 1..(Len(s) - 1) : <<p[q + 1], p[q]>> \notin before}}

(***************************************************************************)
(* The tables.                                                             *)
(***************************************************************************)
Titles == {<<65>>, <<65, 98>>, <<66>>}

MovieRow(t, rev, bud, vc, va, rd) ==
    [original_title |-> t, revenue |-> rev, budget |-> bud, vote_count |-> vc,
     vote_average |-> va, release_date |-> rd]

ActorRow(id, name, t) == [actor_id |-> id, actor_name |-> name, movie_title |-> t]

NoWeights == [revenue_weight |-> 16, vote_weight |-> 16, budget_weight |-> 16]

(***************************************************************************)
(* repeated_movie_titles                                                   *)
(***************************************************************************)
\* df.groupby('original_title').size().reset_index(name='n_movies'):
\* one row per distinct non-null title, in ascending title order.
GroupSizes(df) ==
    LET keys == {df[i].original_title : i \in 1..Len(df)} \ {NaN}
        size(t) == Cardinality({i \in 1..Len(df) : df[i].original_title = t})
        rank(t) == 1 + Cardinality({u \in keys : StrLess(u, t)})
    IN  [q \in 1..Cardinality(keys) |->
            LET t == CHOOSE t \in keys : rank(t) = q
            IN  [original_title |-> t, n_movies |-> size(t)]]

\* A filter that also keeps the titles that occur once.
RepeatedFilterKeepsSingles(sorted_df) ==
    Mask(sorted_df, [i \in 1..Len(sorted_df) |-> sorted_df[i].n_movies >= 1])

RepeatedFilter(sorted_df) ==
    Mask(sorted_df, [i \in 1..Len(sorted_df) |-> sorted_df[i].n_movies > 1])

\* Order of sort_values(by='n_movies', ascending=False).
ByCountDescending(df) == {x \in Pairs(df) : df[x[1]].n_movies > df[x[2]].n_movies}

repeated_movie_titles ==
    /\ pc = "call"
    /\ \E group_df \in {GroupSizes(movies)} :
          \E sorted_df \in UnstableSorts(group_df, ByCountDescending(group_df)) :
             result' = RepeatedFilter(sorted_df)
    /\ pc' = "return"
    /\ UNCHANGED <<movies, actors, n, weights, top_n, merged_df, collaboration_counts>>

TitleRows == {MovieRow(t, 0, 0, 0, NaN, NaN) : t \in Titles}

InitTitles ==
    /\ movies \in SeqsUpTo(TitleRows, MaxTitleRows)
    /\ actors = << >>
    /\ n = 0
    /\ weights = NoWeights
    /\ pc = "call"
    /\ top_n = << >>
    /\ merged_df = << >>
    /\ collaboration_counts = << >>
    /\ result = << >>

SpecTitles == InitTitles /\ [][repeated_movie_titles]_vars

\* Number of source rows carrying title t.
Occurrences(t) == Cardinality({i \in 1..Len(movies) : movies[i].original_title = t})

\* C8: the output of repeated_movie_titles holds exactly the titles that occur
\* in more than one row, each once, with n_movies the exact number of source
\* rows with that title; no row has n_movies <= 1.
RepeatedTitlesExact ==
    pc = "return" =>
        /\ \A i \in 1..Len(result) :
              /\ result[i].n_movies > 1
              /\ result[i].n_movies = Occurrences(result[i].original_title)
        /\ \A t \in Titles :
              Occurrences(t) >= 2 =>
                 Cardinality({i \in 1..Len(result) : result[i].original_title = t}) = 1

\* One title three times and the others once: exactly one row, n_movies = 3.
RepeatedTitlesWitness ==
    /\ pc = "return"
    /\ Len(movies) = 4
    /\ \E t \in Titles : Occurrences(t) = 3
    /\ Len(result) = 1
    /\ result[1].n_movies = 3

(***************************************************************************)
(* highest_grossing_movies_by_year                                         *)
(***************************************************************************)
\* A release_date cell is the sequence <<year, month, day>> of the numbers
\* written in it.  pd.to_datetime(errors='coerce') yields NaT for an empty
\* cell and for a cell that is no calendar date.
IsLeap(y) == (y % 4 = 0 /\ y % 100 # 0) \/ y % 400 = 0

DaysIn(y, m) ==
    IF m = 2 THEN (IF IsLeap(y) THEN 29 ELSE 28)
    ELSE IF m \in {4, 6, 9, 11} THEN 30 ELSE 31

ToDatetime(cell) ==
    IF /\ Len(cell) = 3
       /\ cell[2] \in 1..12
       /\ cell[3] \in 1..DaysIn(cell[1], cell[2])
    THEN cell ELSE NaN

\* my_df after to_datetime, dropna(subset=['release_date']) and the Year column.
WithYear(df) ==
    LET parsed == [i \in 1..Len(df) |-> ToDatetime(df[i].release_date)]
        kept == Mask([i \in 1..Len(df) |-> [row |-> df[i], dt |-> parsed[i]]],
                     [i \in 1..Len(df) |-> parsed[i] # NaN])
    IN  [i \in 1..Len(kept) |->
            [original_title |-> kept[i].row.original_title,
             revenue |-> kept[i].row.revenue,
             Year |-> kept[i].dt[1]]]

\* The group keys of my_df.groupby('Year'), ascending.
YearKeys(my_df) ==
    LET keys == {my_df[i].Year : i \in 1..Len(my_df)}
    IN  [q \in 1..Cardinality(keys) |->
            CHOOSE y \in keys : Cardinality({z \in keys : z < y}) = q - 1]

GroupData(my_df, y) == Mask(my_df, [i \in 1..Len(my_df) |-> my_df[i].Year = y])

RECURSIVE SumRevenue(_)
SumRevenue(g) == IF g = << >> THEN 0 ELSE g[1].revenue + SumRevenue(Tail(g))

RECURSIVE SumSquares(_)
SumSquares(g) == IF g = << >> THEN 0 ELSE g[1].revenue * g[1].revenue + SumSquares(Tail(g))

\* mean() as the exact fraction <<numerator, denominator>>.
MeanRevenue(g) == <<SumRevenue(g), Len(g)>>

\* std() is the square root of the sample variance, kept here as the exact
\* fraction <<numerator, denominator>> of that variance; NaN for one row.
VarRevenue(g) ==
    IF Len(g) < 2 THEN NaN
    ELSE <<Len(g) * SumSquares(g) - SumRevenue(g) * SumRevenue(g), Len(g) * (Len(g) - 1)>>

\* Order of sort_values(by='revenue', ascending=False).
ByRevenueDescending(df) == {x \in Pairs(df) : df[x[1]].revenue > df[x[2]].revenue}

\* Order of sort_values(by='original_title', ascending=True).
ByTitleAscending(df) ==
    {x \in Pairs(df) : StrLess(df[x[1]].original_title, df[x[2]].original_title)}

\* top_movies without the sort by title.
TopMoviesNoTitleSort(group_data, k) ==
    {HeadRows(sorted_group_data, k) :
        sorted_group_data \in UnstableSorts(group_data, ByRevenueDescending(group_data))}

\* top_movies of one year: sort by revenue descending (not stable), head,
\* then a stable sort by title ascending.
TopMovies(group_data, k) ==
    {StableSort(HeadRows(sorted_group_data, k), ByTitleAscending(HeadRows(sorted_group_data, k))) :
        sorted_group_data \in UnstableSorts(group_data, ByRevenueDescending(group_data))}

\* Year rows whose count is taken over the selected movies only.
YearRowsCountSelected(group_data, y, top_movies) ==
    [i \in 1..Len(top_movies) |->
        [Year |-> y,
         Movie_Name |-> top_movies[i].original_title,
         Movie_Revenue |-> top_movies[i].revenue,
         Average_Revenue |-> MeanRevenue(group_data),
         Standard_Deviation_of_Revenue |-> VarRevenue(group_data),
         Number_of_Movies |-> Len(top_movies)]]

\* The rows appended for one year, for one outcome of the revenue sort.
YearRows(group_data, y, top_movies) ==
    [i \in 1..Len(top_movies) |->
        [Year |-> y,
         Movie_Name |-> top_movies[i].original_title,
         Movie_Revenue |-> top_movies[i].revenue,
         Average_Revenue |-> MeanRevenue(group_data),
         Standard_Deviation_of_Revenue |-> VarRevenue(group_data),
         Number_of_Movies |-> Len(group_data)]]

\* The possible contents of `rows` after the loop over the years in ys.
RECURSIVE Rows(_, _, _)
Rows(my_df, ys, k) ==
    IF ys = << >> THEN {<< >>}
    ELSE {YearRows(GroupData(my_df, ys[1]), ys[1], top_movies) \o rest :
            top_movies \in TopMovies(GroupData(my_df, ys[1]), k),
            rest \in Rows(my_df, Tail(ys), k)}

\* sort_values(by=['Year', 'Movie Revenue'], ascending=[True, False]).
FinalOrder(df) ==
    {x \in Pairs(df) :
        \/ df[x[1]].Year < df[x[2]].Year
        \/ df[x[1]].Year = df[x[2]].Year /\ df[x[1]].Movie_Revenue > df[x[2]].Movie_Revenue}

highest_grossing_return ==
    /\ pc = "call"
    /\ \E rows \in Rows(WithYear(movies), YearKeys(WithYear(movies)), n) :
          /\ rows # << >>
          /\ result' = StableSort(rows, FinalOrder(rows))
    /\ pc' = "return"
    /\ UNCHANGED <<movies, actors, n, weights, top_n, merged_df, collaboration_counts>>

\* pd.DataFrame([]) has no columns: sort_values raises KeyError('Year').
highest_grossing_raise ==
    /\ pc = "call"
    /\ << >> \in Rows(WithYear(movies), YearKeys(WithYear(movies)), n)
    /\ pc' = "raise"
    /\ UNCHANGED <<movies, actors, n, weights, top_n, merged_df, collaboration_counts, result>>

highest_grossing_movies_by_year == highest_grossing_return \/ highest_grossing_raise

YearTitles == {<<65>>, <<66>>}
Revenues == {1, 2}
Dates == {<<1999, 12, 31>>, <<2000, 2, 29>>, <<2001, 2, 29>>}

YearMovieRows == {MovieRow(t, r, 0, 0, NaN, d) : t \in YearTitles, r \in Revenues, d \in Dates}

InitYear ==
    /\ movies \in SeqsUpTo(YearMovieRows, MaxYearRows)
    /\ actors = << >>
    /\ n \in 0..MaxPerYear
    /\ weights = NoWeights
    /\ pc = "call"
    /\ top_n = << >>
    /\ merged_df = << >>
    /\ collaboration_counts = << >>
    /\ result = << >>

SpecYear == InitYear /\ [][highest_grossing_movies_by_year]_vars

\* Movies with a parseable release date in year y.
ParseableIn(y) ==
    {i \in 1..Len(movies) :
        ToDatetime(movies[i].release_date) # NaN /\ ToDatetime(movies[i].release_date)[1] = y}

ReleaseYears == {d[1] : d \in Dates}

TotalIn(y) == Cardinality(ParseableIn(y))

InCount(y, t, r) ==
    Cardinality({i \in ParseableIn(y) : movies[i].original_title = t /\ movies[i].revenue = r})

OutCount(y, t, r) ==
    Cardinality({i \in 1..Len(result) :
        result[i].Year = y /\ result[i].Movie_Name = t /\ result[i].Movie_Revenue = r})

\* Movie (t2, r2) ranks before movie (t1, r1): more revenue, or the same
\* revenue and a smaller title.
RanksBefore(t2, r2, t1, r1) == r2 > r1 \/ (r2 = r1 /\ StrLess(t2, t1))

\* C1: in every year the selected movies are the top n_movies_per_year by
\* revenue with ties in revenue broken by title ascending: no movie left out
\* of the output ranks before a selected movie of its year.
TopByRevenueThenTitle ==
    pc = "return" =>
        \A y \in ReleaseYears : \A t1, t2 \in YearTitles : \A r1, r2 \in Revenues :
            (OutCount(y, t1, r1) > 0 /\ InCount(y, t2, r2) > OutCount(y, t2, r2))
                => ~RanksBefore(t2, r2, t1, r1)

\* C4: every year with a parseable movie has exactly min(n_movies_per_year,
\* total) output rows, each carrying Number of Movies = total, the count of
\* all parseable movies of the year.
YearRowCountAndTotal ==
    pc = "return" =>
        \A y \in ReleaseYears :
            TotalIn(y) >= 1 =>
                /\ Cardinality({i \in 1..Len(result) : result[i].Year = y}) = Min(n, TotalIn(y))
                /\ \A i \in 1..Len(result) :
                      result[i].Year = y => result[i].Number_of_Movies = TotalIn(y)

\* A year with more parseable movies than the limit, and a dropped row.
YearRowCountWitness ==
    /\ pc = "return"
    /\ \E i \in 1..Len(movies) : ToDatetime(movies[i].release_date) = NaN
    /\ \E y \in ReleaseYears :
          /\ TotalIn(y) > n
          /\ Cardinality({i \in 1..Len(result) : result[i].Year = y}) = n
          /\ \A i \in 1..Len(result) : result[i].Number_of_Movies > n

\* C7: output rows are ordered by Year ascending, then Movie Revenue
\* descending, and rows of one year with equal revenue by Movie Name ascending.
YearOutputOrder ==
    pc = "return" =>
        \A i, j \in 1..Len(result) :
            i < j =>
                /\ result[i].Year <= result[j].Year
                /\ result[i].Year = result[j].Year =>
                      result[i].Movie_Revenue >= result[j].Movie_Revenue
                /\ (result[i].Year = result[j].Year
                    /\ result[i].Movie_Revenue = result[j].Movie_Revenue) =>
                      ~StrLess(result[j].Movie_Name, result[i].Movie_Name)

\* Two years in the output, and in one of them two rows of equal revenue
\* whose titles differ and that entered the table in descending title order.
YearOutputOrderWitness ==
    /\ pc = "return"
    /\ \E i, j \in 1..Len(result) : result[i].Year < result[j].Year
    /\ \E i, j \in 1..Len(result) :
          /\ i < j
          /\ result[i].Year = result[j].Year
          /\ result[i].Movie_Revenue = result[j].Movie_Revenue
          /\ StrLess(result[i].Movie_Name, result[j].Movie_Name)
    /\ \E i, j \in 1..Len(movies) :
          /\ i < j
          /\ movies[i].release_date = movies[j].release_date
          /\ movies[i].revenue = movies[j].revenue
          /\ StrLess(movies[j].original_title, movies[i].original_title)

(***************************************************************************)
(* actors_in_top_movies                                                    *)
(***************************************************************************)
\* formula: revenue, vote_count and budget weighted, in units of 1/32.
Score(x, w) ==
    x.revenue * w.revenue_weight + x.vote_count * w.vote_weight + x.budget * w.budget_weight

\* new_movies: the movie table with its score column.
WithScore(df, w) ==
    [i \in 1..Len(df) |-> [original_title |-> df[i].original_title, score |-> Score(df[i], w)]]

\* The sorted movie table without the head(n_movies).
TopNWithoutHead(new_movies, k) ==
    UnstableSorts(new_movies, {x \in Pairs(new_movies) : new_movies[x[1]].score > new_movies[x[2]].score})

\* sort_values(by='score', ascending=False).head(n_movies), every outcome.
TopN(new_movies, k) ==
    {HeadRows(sorted, k) :
        sorted \in UnstableSorts(new_movies,
                    {x \in Pairs(new_movies) : new_movies[x[1]].score > new_movies[x[2]].score})}

\* A merge that keeps one row per left row, the first match.
LeftMatchesFirstOnly(a, right) ==
    LET hits == Mask(right, [j \in 1..Len(right) |-> right[j].original_title = a.movie_title])
    IN  IF hits = << >>
        THEN <<[movie_title |-> a.movie_title, actor_name |-> a.actor_name,
                original_title |-> NaN, score |-> NaN]>>
        ELSE <<[movie_title |-> a.movie_title, actor_name |-> a.actor_name,
                original_title |-> hits[1].original_title, score |-> <<hits[1].score>>]>>

\* The rows a left row contributes to a left merge: one per matching right
\* row, in the order of the right table, or one row of NaN when none matches.
LeftMatches(a, right) ==
    LET hits == Mask(right, [j \in 1..Len(right) |-> right[j].original_title = a.movie_title])
    IN  IF hits = << >>
        THEN <<[movie_title |-> a.movie_title, actor_name |-> a.actor_name,
                original_title |-> NaN, score |-> NaN]>>
        ELSE [j \in 1..Len(hits) |->
                [movie_title |-> a.movie_title, actor_name |-> a.actor_name,
                 original_title |-> hits[j].original_title, score |-> <<hits[j].score>>]]

\* pd.merge(df2, top_n, left_on='movie_title', right_on='original_title', how='left').
RECURSIVE LeftMerge(_, _)
LeftMerge(left, right) ==
    IF left = << >> THEN << >>
    ELSE LeftMatches(left[1], right) \o LeftMerge(Tail(left), right)

\* Order of sort_values(by=['score', 'actor_name'], ascending=[False, True]);
\* NaN sorts last in either column.
ScoreBefore(a, b) == a.score # NaN /\ (b.score = NaN \/ a.score[1] > b.score[1])

NameBefore(a, b) == a # NaN /\ (b = NaN \/ StrLess(a, b))

MergedOrder(df) ==
    {x \in Pairs(df) :
        \/ ScoreBefore(df[x[1]], df[x[2]])
        \/ /\ ~ScoreBefore(df[x[2]], df[x[1]])
           /\ NameBefore(df[x[1]].actor_name, df[x[2]].actor_name)}

\* The nearest integer to num/den (den > 0), halves to the even one: np.rint.
RoundHalfEven(num, den) ==
    LET q == num \div den
        r == num % den
    IN  IF 2 * r < den THEN q
        ELSE IF 2 * r > den THEN q + 1
        ELSE IF q % 2 = 0 THEN q ELSE q + 1

\* Series.round(1) of a score in units of 1/32: the result in tenths.
Round1(s) == RoundHalfEven(10 * s, 32)

RoundScores(df) ==
    [i \in 1..Len(df) |->
        [df[i] EXCEPT !.score = IF df[i].score = NaN THEN NaN ELSE <<Round1(df[i].score[1])>>]]

\* right_col[right_col.score > 0] with the columns renamed.
PositiveRows(df) ==
    LET kept == Mask(df, [i \in 1..Len(df) |-> df[i].score # NaN /\ df[i].score[1] > 0])
    IN  [i \in 1..Len(kept) |->
            [Movie_name |-> kept[i].movie_title,
             Movie_score |-> kept[i].score[1],
             Actor_name |-> kept[i].actor_name]]

actors_in_top_movies ==
    /\ pc = "call"
    /\ \E top \in TopN(WithScore(movies, weights), n) :
          \E merged \in {LeftMerge(actors, top)} :
             \E rounded \in {RoundScores(StableSort(merged, MergedOrder(merged)))} :
                /\ top_n' = top
                /\ merged_df' = rounded
                /\ result' = PositiveRows(rounded)
    /\ pc' = "return"
    /\ UNCHANGED <<movies, actors, n, weights, collaboration_counts>>

Amy == <<65, 109, 121>>
Zed == <<90, 101, 100>>

TopTitles == {<<65>>, <<66>>}

TopMovieRows ==
    {MovieRow(t, x[1], 1, x[2], NaN, NaN) : t \in TopTitles, x \in {<<0, 0>>, <<2, 0>>, <<2, 1>>}}

TopActorRows == {ActorRow(1, Amy, t) : t \in TopTitles} \cup {ActorRow(2, Zed, t) : t \in TopTitles}

WeightChoices ==
    {[revenue_weight |-> 16, vote_weight |-> 16, budget_weight |-> 16],
     [revenue_weight |-> 1, vote_weight |-> 1, budget_weight |-> 1],
     [revenue_weight |-> 1, vote_weight |-> -1, budget_weight |-> -1]}

InitTop ==
    /\ movies \in SeqsUpTo(TopMovieRows, MaxTopMovies)
    /\ actors \in SeqsUpTo(TopActorRows, MaxTopActors)
    /\ n \in 0..MaxTopN
    /\ weights \in WeightChoices
    /\ pc = "call"
    /\ top_n = << >>
    /\ merged_df = << >>
    /\ collaboration_counts = << >>
    /\ result = << >>

SpecTop == InitTop /\ [][actors_in_top_movies]_vars

\* Movie i is among the n highest-scored: fewer than n movies score higher.
AmongTopScored(i) ==
    Cardinality({j \in 1..Len(movies) : Score(movies[j], weights) > Score(movies[i], weights)}) < n

\* C2: the rows returned by actors_in_top_movies are ordered by "Movie score"
\* descending and, among equal "Movie score", by "Actor name" ascending.
TopOutputOrder ==
    pc = "return" =>
        \A i, j \in 1..Len(result) :
            i < j =>
                /\ result[i].Movie_score >= result[j].Movie_score
                /\ result[i].Movie_score = result[j].Movie_score =>
                      ~StrLess(result[j].Actor_name, result[i].Actor_name)

\* C5: every "Movie name" of the output is the title of one of the n_movies
\* highest-scored movies, whose rounded score the row carries; every "Movie
\* score" is strictly positive; an actor-role row whose movie_title matches no
\* top-N movie does not appear.
TopNamesAndPositiveScores ==
    pc = "return" =>
        /\ \A i \in 1..Len(result) :
              /\ result[i].Movie_score > 0
              /\ \E m \in 1..Len(movies) :
                    /\ movies[m].original_title = result[i].Movie_name
                    /\ AmongTopScored(m)
                    /\ Round1(Score(movies[m], weights)) = result[i].Movie_score
        /\ \A a \in 1..Len(actors) :
              (\A k \in 1..Len(top_n) : top_n[k].original_title # actors[a].movie_title)
                 => \A i \in 1..Len(result) : result[i].Movie_name # actors[a].movie_title

\* Some output, while a movie is left out of the top N and an actor row
\* carries the title of a movie that is not among the selected ones.
TopNamesWitness ==
    /\ pc = "return"
    /\ Len(result) > 0
    /\ Len(movies) > n
    /\ \E a \in 1..Len(actors) :
          /\ \E m \in 1..Len(movies) : movies[m].original_title = actors[a].movie_title
          /\ \A k \in 1..Len(top_n) : top_n[k].original_title # actors[a].movie_title

\* (top movie, actor row) pairs joined by title.
TopPairs ==
    {x \in (1..Len(top_n)) \X (1..Len(actors)) :
        top_n[x[1]].original_title = actors[x[2]].movie_title}

DropNullNames(df) == Mask(df, [i \in 1..Len(df) |-> df[i].actor_name # NaN])

\* The rows one left row contributes to the inner self-merge on movie_title.
SelfMatches(a, df) ==
    LET hits == Mask(df, [j \in 1..Len(df) |-> df[j].movie_title = a.movie_title])
    IN  [j \in 1..Len(hits) |->
            [movie_title |-> a.movie_title,
             actor_id_x |-> a.actor_id, actor_name_x |-> a.actor_name,
             actor_id_y |-> hits[j].actor_id, actor_name_y |-> hits[j].actor_name]]

\* pd.merge(df, df, on='movie_title').
RECURSIVE SelfMerge(_, _)
SelfMerge(left, df) ==
    IF left = << >> THEN << >>
    ELSE SelfMatches(left[1], df) \o SelfMerge(Tail(left), df)

\* A filter that keeps each pair of ids once.
ExcludeSelfKeepsHalf(merged) ==
    Mask(merged, [i \in 1..Len(merged) |-> merged[i].actor_id_x < merged[i].actor_id_y])

\* merged_df[merged_df['actor_id_x'] != merged_df['actor_id_y']].
ExcludeSelf(merged) ==
    Mask(merged, [i \in 1..Len(merged) |-> merged[i].actor_id_x # merged[i].actor_id_y])

\* groupby('actor_name_x')['actor_name_y'].nunique().reset_index(): one row
\* per name, ascending, with the number of distinct non-null partner names.
CountUnique(merged) ==
    LET keys == {merged[i].actor_name_x : i \in 1..Len(merged)} \ {NaN}
        partners(x) ==
            {merged[i].actor_name_y : i \in {j \in 1..Len(merged) : merged[j].actor_name_x = x}}
                \ {NaN}
        rank(x) == 1 + Cardinality({u \in keys : StrLess(u, x)})
    IN  [q \in 1..Cardinality(keys) |->
            LET x == CHOOSE x \in keys : rank(x) = q
            IN  [actor_name |-> x, n_collaborators |-> Cardinality(partners(x))]]

\* Order of sort_values(by='n_movies', ascending=False) on the count table.
ByCollaboratorsDescending(df) ==
    {x \in Pairs(df) : df[x[1]].n_collaborators > df[x[2]].n_collaborators}

actors_with_most_collaborations ==
    /\ pc = "call"
    /\ \E df \in {DropNullNames(actors)} :
          \E merged \in {ExcludeSelf(SelfMerge(df, df))} :
             \E counts \in {CountUnique(merged)} :
                \E sorted \in UnstableSorts(counts, ByCollaboratorsDescending(counts)) :
                   /\ merged_df' = merged
                   /\ collaboration_counts' = sorted
                   /\ result' = HeadRows(sorted, n)
    /\ pc' = "return"
    /\ UNCHANGED <<movies, actors, n, weights, top_n>>

Bob == <<66, 111, 98>>

\* The people of the roster: actor_id and actor_name.  Two ids carry the
\* same name and one id has no name.
People == {<<1, Amy>>, <<2, Amy>>, <<3, Zed>>, <<4, Bob>>, <<5, NaN>>}

CollabTitles == {<<65>>, <<66>>}

CollabActorRows == {ActorRow(p[1], p[2], t) : p \in People, t \in CollabTitles}

InitCollab ==
    /\ movies = << >>
    /\ actors \in SeqsUpTo(CollabActorRows, MaxCollabRows)
    /\ n \in 0..MaxCollabN
    /\ weights = NoWeights
    /\ pc = "call"
    /\ top_n = << >>
    /\ merged_df = << >>
    /\ collaboration_counts = << >>
    /\ result = << >>

SpecCollab == InitCollab /\ [][actors_with_most_collaborations]_vars

\* The ids other than actor id a that share a movie with a.
CoActors(a) ==
    {actors[j].actor_id : j \in {j \in 1..Len(actors) :
        /\ actors[j].actor_id # a
        /\ \E i \in 1..Len(actors) :
              actors[i].actor_id = a /\ actors[i].movie_title = actors[j].movie_title}}

\* C3: on a roster without null names, the n_collaborators of every output
\* row equals, for each actor carrying the row's name, the number of distinct
\* other actors that share at least one movie with that actor.
CollaboratorsAreDistinctCoActors ==
    (pc = "return" /\ \A i \in 1..Len(actors) : actors[i].actor_name # NaN) =>
        \A r \in 1..Len(result) : \A i \in 1..Len(actors) :
            actors[i].actor_name = result[r].actor_name =>
                result[r].n_collaborators = Cardinality(CoActors(actors[i].actor_id))

\* Y is counted among X's collaborators: a row of the filtered self-merge.
Counted(x, y) ==
    \E i \in 1..Len(merged_df) :
        merged_df[i].actor_name_x = x /\ merged_df[i].actor_name_y = y

HasCountRow(x) == \E r \in 1..Len(collaboration_counts) : collaboration_counts[r].actor_name = x

RosterNames == {p[2] : p \in People} \ {NaN}

\* C10: before truncation the collaboration relation on names is symmetric,
\* every name with or as a counted collaborator has a row of the untruncated
\* table, and a name none of whose movies has another named cast row with a
\* different actor_id has no row.
CollaborationSymmetric ==
    pc = "return" =>
        /\ \A x, y \in RosterNames : Counted(x, y) <=> Counted(y, x)
        /\ \A x, y \in RosterNames : Counted(x, y) => HasCountRow(x) /\ HasCountRow(y)
        /\ \A x \in RosterNames :
              (\A i, j \in 1..Len(actors) :
                  (/\ actors[i].actor_name = x
                   /\ actors[j].actor_name # NaN
                   /\ actors[j].movie_title = actors[i].movie_title)
                     => actors[j].actor_id = actors[i].actor_id)
                 => ~HasCountRow(x)

\* Two differently named actors count each other while a third named actor,
\* alone in the cast of its movie, has no row.
CollaborationSymmetricWitness ==
    /\ pc = "return"
    /\ \E x, y \in RosterNames : x # y /\ Counted(x, y) /\ Counted(y, x)
    /\ \E i \in 1..Len(actors) :
          actors[i].actor_name # NaN /\ ~HasCountRow(actors[i].actor_name)

(***************************************************************************)
(* actors_with_highest_median_score                                        *)
(***************************************************************************)
\* The rows one movie row contributes to the inner merge with the roster.
InnerMatches(m, roster) ==
    LET hits == Mask(roster, [j \in 1..Len(roster) |-> roster[j].movie_title = m.original_title])
    IN  [j \in 1..Len(hits) |->
            [original_title |-> m.original_title, vote_average |-> m.vote_average,
             actor_name |-> hits[j].actor_name]]

\* pd.merge(movies_df, actors_df, left_on='original_title', right_on='movie_title', how='inner').
RECURSIVE InnerMerge(_, _)
InnerMerge(left, roster) ==
    IF left = << >> THEN << >>
    ELSE InnerMatches(left[1], roster) \o InnerMerge(Tail(left), roster)

\* merged_df.dropna(subset=['vote_average']).
DropNullVotes(df) == Mask(df, [i \in 1..Len(df) |-> df[i].vote_average # NaN])

\* The upper middle value, doubled, whatever the length.
UpperMedian(values) ==
    LET sorted == StableSort(values, {x \in Pairs(values) : values[x[1]] < values[x[2]]})
    IN  2 * sorted[(Len(sorted) \div 2) + 1]

\* median() of a non-empty sequence of numbers, doubled so that the mean of
\* the two middle values of an even-length sequence stays an integer.
Median(values) ==
    LET sorted == StableSort(values, {x \in Pairs(values) : values[x[1]] < values[x[2]]})
        k == Len(sorted)
    IN  IF k % 2 = 1 THEN 2 * sorted[(k + 1) \div 2]
        ELSE sorted[k \div 2] + sorted[(k \div 2) + 1]

\* groupby('actor_name')['vote_average'].median().reset_index(): one row per
\* non-null name, ascending.
GroupMedians(df) ==
    LET keys == {df[i].actor_name : i \in 1..Len(df)} \ {NaN}
        rows(x) == Mask(df, [i \in 1..Len(df) |-> df[i].actor_name = x])
        rank(x) == 1 + Cardinality({u \in keys : StrLess(u, x)})
    IN  [q \in 1..Cardinality(keys) |->
            LET x == CHOOSE x \in keys : rank(x) = q
            IN  [Actor_Name |-> x,
                 Median_Vote_Average |->
                    Median([i \in 1..Len(rows(x)) |-> rows(x)[i].vote_average[1]])]]

\* Order of sort_values(by='vote_average', ascending=False).
ByMedianDescending(df) ==
    {x \in Pairs(df) : df[x[1]].Median_Vote_Average > df[x[2]].Median_Vote_Average}

actors_with_highest_median_score ==
    /\ pc = "call"
    /\ \E merged \in {DropNullVotes(InnerMerge(movies, actors))} :
          \E medians \in {GroupMedians(merged)} :
             \E actor_median_scores \in UnstableSorts(medians, ByMedianDescending(medians)) :
                /\ merged_df' = merged
                /\ result' = HeadRows(actor_median_scores, n)
    /\ pc' = "return"
    /\ UNCHANGED <<movies, actors, n, weights, top_n, collaboration_counts>>

MedianTitles == {<<65>>, <<66>>}

\* vote_average in tenths of a point.
MedianMovieRows ==
    {MovieRow(<<65>>, 0, 0, 0, va, NaN) : va \in {NaN, <<60>>, <<90>>}}
        \cup {MovieRow(<<66>>, 0, 0, 0, <<70>>, NaN)}

MedianActorRows ==
    {ActorRow(1, Amy, t) : t \in MedianTitles} \cup {ActorRow(3, Zed, t) : t \in MedianTitles}

InitMedian ==
    /\ movies \in SeqsUpTo(MedianMovieRows, MaxMedianMovies)
    /\ actors \in SeqsUpTo(MedianActorRows, MaxMedianActors)
    /\ n \in 0..MaxMedianN
    /\ weights = NoWeights
    /\ pc = "call"
    /\ top_n = << >>
    /\ merged_df = << >>
    /\ collaboration_counts = << >>
    /\ result = << >>

SpecMedian == InitMedian /\ [][actors_with_highest_median_score]_vars

\* The (movie row, actor-role row) pairs of actor name x joined by title
\* whose vote_average is not null.
VotedPairs(x) ==
    {p \in (1..Len(movies)) \X (1..Len(actors)) :
        /\ actors[p[2]].actor_name = x
        /\ movies[p[1]].original_title = actors[p[2]].movie_title
        /\ movies[p[1]].vote_average # NaN}

Vote(p) == movies[p[1]].vote_average[1]

\* Vote v stands at position k when the votes of P are arranged in
\* ascending order: fewer than k votes are smaller and at least k are not
\* greater.
AtRank(v, k, P) ==
    /\ Cardinality({p \in P : Vote(p) < v}) < k
    /\ k <= Cardinality({p \in P : Vote(p) <= v})

\* m2 is twice the median of the votes of the pairs in P: the sum of the two
\* middle votes, which are one and the same vote when P has odd size.
IsDoubledMedian(m2, P) ==
    \E lo, hi \in P :
        /\ AtRank(Vote(lo), ((Cardinality(P) - 1) \div 2) + 1, P)
        /\ AtRank(Vote(hi), (Cardinality(P) \div 2) + 1, P)
        /\ m2 = Vote(lo) + Vote(hi)

\* C9: each output actor's "Median Vote Average" is the median of exactly the
\* non-null vote_average values of the joined pairs of that actor name, one
\* value per pair; a name with no such pair has no output row.
MedianOverJoinedPairs ==
    pc = "return" =>
        /\ \A r \in 1..Len(result) :
              /\ VotedPairs(result[r].Actor_Name) # {}
              /\ IsDoubledMedian(result[r].Median_Vote_Average, VotedPairs(result[r].Actor_Name))
        /\ \A i \in 1..Len(actors) :
              VotedPairs(actors[i].actor_name) = {} =>
                 \A r \in 1..Len(result) : result[r].Actor_Name # actors[i].actor_name

\* An actor whose median is the mean of two different votes, one of them of
\* a title that also has a movie row with a null vote_average, next to an
\* actor of the roster that has no output row.
MedianWitness ==
    /\ pc = "return"
    /\ \E r \in 1..Len(result) :
          /\ Cardinality(VotedPairs(result[r].Actor_Name)) = 2
          /\ \A p \in VotedPairs(result[r].Actor_Name) :
                2 * Vote(p) # result[r].Median_Vote_Average
    /\ \E m \in 1..Len(movies) : movies[m].vote_average = NaN
    /\ \E i \in 1..Len(actors) : VotedPairs(actors[i].actor_name) = {}

====
